---- MODULE Spec2Model ----
(***************************************************************************)
(* The Prompter scheduler of llm-prompt-format-benchmark: a fixed-size     *)
(* queue (the timeline), a load interval that refills it from the          *)
(* database, a chat interval that sends the front slot to the runner, a    *)
(* wait interval that resolves the completion promise, retry placement     *)
(* and the step-size throttle.                                             *)
(*                                                                         *)
(* One action is one run-to-completion piece of the JavaScript event loop: *)
(* a timer callback up to its first await, or the continuation of an       *)
(* await (the rest of the callback, all its microtasks included).          *)
(* step_size_float is kept in tenths (0.1 is 1, 32 is 320).                *)
(***************************************************************************)
EXTENDS Integers, Sequences, FiniteSets

\* ------------------------------------------------------------- bounds
\* model.rpm, the one configuration input of the constructor
rpm == 12
\* number of prompts the database holds is drawn from 0..MaxStore
MaxStore == 2
\* database.load calls per run
MaxLoads == 2
\* runner.chat calls per run
MaxSends == 3
\* runner.chat calls in flight at once
MaxInFlight == 2
\* cap of step_size_int, which the code lets grow by one per tick
MaxStepInt == 8
\* PushSpec: prompts the database holds, and database.load calls per run
MaxPushStore == 3
MaxPushLoads == 9

\* ---------------------------------------------------------- constants
STEP_SIZE_MIN == 10
STEP_SIZE_MAX == 320
STEP_POSITIVE_AMOUNT == 1
STEP_NEGATIVE_AMOUNT == -5
RETRY_COUNT == 10
RETRY_MIN == 1

\* a slot of the queue holds null, or a prompt (an index into prompts);
\* reading the array at its length gives undefined
NULL == 0
UNDEFINED == -1
\* find_closest_queue_index returning null
NOT_FOUND == -2

\* what runner.chat does: resolve, or reject with an error
\* (tokens: the error's message includes "tokens")
Ok == [kind |-> "ok", code |-> "", tokens |-> FALSE]
ErrorCodes == {"408", "429", "503", "529", "500"}
Outcomes ==
  {Ok}
  \cup {[kind |-> "NetworkError", code |-> c, tokens |-> FALSE] : c \in ErrorCodes}
  \cup {[kind |-> "NetworkError", code |-> "500", tokens |-> TRUE]}
  \cup {[kind |-> "Error", code |-> "", tokens |-> t] : t \in BOOLEAN}

\* Prompt.retries of the prompts the database hands over: one value per run
StoreRetries == {0, RETRY_COUNT - 1}

\* ------------------------------------------------- constructor values
queue_size == rpm * 2
load_limit == rpm \div 4
load_threshold == (load_limit + 1) \div 2

VARIABLES
  signal,           \* the promise of start(): "idle", "pending", "true", "false"
  queue,            \* this.queue, indices 0..queue_size (queue_size is past the end)
  queue_count,
  step_index,
  step_size_float,  \* in tenths
  step_size_int,
  load_interval,    \* TRUE while the load timer is live
  load_cursor,
  chat_interval,    \* TRUE while the chat timer is live
  chat_active,
  wait_interval,    \* the handle last stored in this.wait_interval, 0 when never set
  wait_timers,      \* handles of the wait timers that are live
  aborted,          \* abort_controller.signal.aborted
  prompts,          \* the Prompt objects loaded so far: <<[id, retries]>>
  store_size,       \* the database holds the prompts with ids 1..store_size
  store_retries,    \* Prompt.retries of the prompts as the database returns them
  loading,          \* database.load calls in flight: cursor -> how many
  chatting,         \* runner.chat calls in flight: prompt -> how many
  n_loads,          \* database.load calls so far
  n_sends,          \* runner.chat calls so far
  abort_calls,      \* calls of abort() so far
  last_tick_sent,   \* the latest chat tick called send_prompt
  exhausted,        \* prompts logged "Reached maximum count of retries"
  unplaced          \* prompts logged "Couldn't find closest index"

vars == <<signal, queue, queue_count, step_index, step_size_float, step_size_int,
          load_interval, load_cursor, chat_interval, chat_active, wait_interval,
          wait_timers, aborted, prompts, store_size, loading, chatting,
          n_loads, n_sends, abort_calls, store_retries,
          last_tick_sent, exhausted, unplaced>>

Min(a, b) == IF a < b THEN a ELSE b
Max(a, b) == IF a > b THEN a ELSE b

\* ------------------------------------------------------------ helpers
\* Math.round of a value in tenths, value >= 0
Round(t) == (t + 5) \div 10

\* floor((retries + RETRY_MIN) ** 1.85 * j) for j = 0.75 and for j = 1.0
\* (0.75 + Math.random() * 0.25 rounds to 1.0 for the largest random), retries 0..10
DelayLo(retries) == <<0, 2, 5, 9, 14, 20, 27, 35, 43, 53, 63>>[retries + RETRY_MIN]
DelayHi(retries) == <<1, 3, 7, 12, 19, 27, 36, 46, 58, 70, 84>>[retries + RETRY_MIN]
Delays(retries) == DelayLo(retries)..DelayHi(retries)
\* the values Math.min(Math.floor(...), this.queue_size) can take
ExactIndexes(retries) == {Min(delay, queue_size) : delay \in Delays(retries)}

\* the loop of shift_queue, then the write at queue_size
shift_queue(q) ==
  [i \in 0..queue_size |->
     IF i < queue_size - 1 THEN q[i + 1]
     ELSE IF i = queue_size THEN NULL
     ELSE q[i]]

update_step_size(float, value) ==
  IF value > 0 THEN Min(float + value, STEP_SIZE_MAX)
  ELSE Max(float + value, STEP_SIZE_MIN)

increment_step_index(int, index) ==
  IF int = index THEN 0 ELSE int + 1

RECURSIVE scan_higher(_, _)
scan_higher(q, higher_index) ==
  IF higher_index >= queue_size THEN NOT_FOUND
  ELSE IF q[higher_index] = NULL THEN higher_index
  ELSE scan_higher(q, higher_index + 1)

RECURSIVE scan_lower(_, _)
scan_lower(q, lower_index) ==
  IF lower_index <= 0 THEN NOT_FOUND
  ELSE IF q[lower_index] = NULL THEN lower_index
  ELSE scan_lower(q, lower_index - 1)

\* the search of find_closest_queue_index from its exact_index
find_closest_queue_index(q, exact_index) ==
  LET higher == IF exact_index < queue_size
                THEN scan_higher(q, exact_index + 1) ELSE NOT_FOUND
      lower == IF exact_index > 0
               THEN scan_lower(q, exact_index - 1) ELSE NOT_FOUND
  IN IF q[exact_index] = NULL THEN exact_index
     ELSE IF higher # NOT_FOUND THEN higher
     ELSE lower

\* schedule_prompt with the ceiling compared by <= instead of <
schedule_prompt_ceiling_inclusive(q, ps, prompt, exact_index) ==
  IF ps[prompt].retries <= RETRY_COUNT
  THEN LET queue_index == find_closest_queue_index(q, exact_index)
       IN IF queue_index = NOT_FOUND
          THEN [queue |-> q, prompts |-> ps, log |-> "unplaced"]
          ELSE [queue |-> [q EXCEPT ![queue_index] = prompt],
                prompts |-> [ps EXCEPT ![prompt].retries = @ + 1],
                log |-> ""]
  ELSE [queue |-> q, prompts |-> ps, log |-> "exhausted"]

\* schedule_prompt on the pair [queue, prompts]
\* log is "" or what console.log reports
schedule_prompt(q, ps, prompt, exact_index) ==
  IF ps[prompt].retries < RETRY_COUNT
  THEN LET queue_index == find_closest_queue_index(q, exact_index)
       IN IF queue_index = NOT_FOUND
          THEN [queue |-> q, prompts |-> ps, log |-> "unplaced"]
          ELSE [queue |-> [q EXCEPT ![queue_index] = prompt],
                prompts |-> [ps EXCEPT ![prompt].retries = @ + 1],
                log |-> ""]
  ELSE [queue |-> q, prompts |-> ps, log |-> "exhausted"]

should_retry(error) ==
  error.code \in {"408", "429", "503", "529"} \/ error.tokens

\* the loop of push_prompts_to_queue on [queue, queue_count, load_cursor];
\* page is the response's data, a sequence of [prompt, id]
RECURSIVE push_loop(_, _, _, _)
push_loop(st, page, queue_index, prompt_index) ==
  IF queue_index >= queue_size THEN st
  ELSE IF st.queue[queue_index] = NULL
  THEN LET st1 == [st EXCEPT !.queue[queue_index] = page[prompt_index + 1].prompt,
                             !.queue_count = @ + 1]
       IN IF prompt_index = Len(page) - 1
          THEN [st1 EXCEPT !.load_cursor = page[prompt_index + 1].id]
          ELSE push_loop(st1, page, queue_index + 1, prompt_index + 1)
  ELSE push_loop(st, page, queue_index + 1, prompt_index)

push_prompts_to_queue(q, count, cursor, page) ==
  push_loop([queue |-> q, queue_count |-> count, load_cursor |-> cursor], page, 0, 0)

\* database.load(cursor, limit) on a store holding ids 1..size
load_done(size, cursor) == cursor >= size
load_ids(size, cursor, limit) ==
  [k \in 1..(Min(cursor + limit, size) - cursor) |-> cursor + k]

\* -------------------------------------------------------------- Init
Init ==
  /\ signal = "idle"
  /\ queue = [i \in 0..queue_size |-> IF i < queue_size THEN NULL ELSE UNDEFINED]
  /\ queue_count = 0
  /\ step_index = 0
  /\ step_size_float = 0
  /\ step_size_int = 0
  /\ load_interval = FALSE
  /\ load_cursor = 0
  /\ chat_interval = FALSE
  /\ chat_active = 0
  /\ wait_interval = 0
  /\ wait_timers = {}
  /\ aborted = FALSE
  /\ prompts = <<>>
  /\ store_size \in 0..MaxStore
  /\ store_retries \in StoreRetries
  /\ last_tick_sent = FALSE
  /\ exhausted = {}
  /\ unplaced = {}
  /\ loading = [c \in 0..MaxStore |-> 0]
  /\ chatting = <<>>
  /\ n_loads = 0
  /\ n_sends = 0
  /\ abort_calls = 0

\* ------------------------------------------------------------ actions
Start ==
  /\ signal = "idle"
  /\ signal' = "pending"
  /\ load_interval' = TRUE
  /\ chat_interval' = TRUE
  /\ UNCHANGED <<queue, queue_count, step_index, step_size_float, step_size_int,
                 load_cursor, chat_active, wait_interval, wait_timers, aborted,
                 prompts, store_size, loading, chatting, n_loads, n_sends,
                 abort_calls, store_retries, last_tick_sent, exhausted,
                 unplaced>>

\* the promise keeps its first resolution
Resolved(value) == IF signal = "pending" THEN value ELSE signal

\* a tick of the load interval, up to the await of database.load, in a run
\* of at most max_loads calls of database.load
LoadTickWithin(max_loads) ==
  /\ load_interval
  /\ IF queue_count >= load_threshold
     THEN UNCHANGED <<loading, n_loads>>
     ELSE /\ n_loads < max_loads
          /\ loading' = [loading EXCEPT ![load_cursor] = @ + 1]
          /\ n_loads' = n_loads + 1
  /\ UNCHANGED <<signal, queue, queue_count, step_index, step_size_float,
                 step_size_int, load_interval, load_cursor, chat_interval,
                 chat_active, wait_interval, wait_timers, aborted, prompts,
                 store_size, chatting, n_sends, abort_calls,
                 store_retries, last_tick_sent, exhausted, unplaced>>

LoadTick == LoadTickWithin(MaxLoads)

\* database.load(cursor, ...) resolves: the rest of the load callback
LoadReturn(cursor) ==
  /\ loading[cursor] > 0
  /\ loading' = [loading EXCEPT ![cursor] = @ - 1]
  /\ IF load_done(store_size, cursor)
     THEN /\ load_interval' = FALSE
          /\ wait_interval' = wait_interval + 1
          /\ wait_timers' = wait_timers \cup {wait_interval + 1}
          /\ UNCHANGED <<queue, queue_count, load_cursor, prompts, chatting>>
     ELSE LET ids == load_ids(store_size, cursor, load_limit)
              page == [k \in 1..Len(ids) |->
                         [prompt |-> Len(prompts) + k, id |-> ids[k]]]
              st == push_prompts_to_queue(queue, queue_count, load_cursor, page)
          IN /\ prompts' = prompts \o [k \in 1..Len(ids) |->
                                         [id |-> ids[k], retries |-> store_retries]]
             /\ chatting' = chatting \o [k \in 1..Len(ids) |-> 0]
             /\ queue' = st.queue
             /\ queue_count' = st.queue_count
             /\ load_cursor' = st.load_cursor
             /\ UNCHANGED <<load_interval, wait_interval, wait_timers>>
  /\ UNCHANGED <<signal, step_index, step_size_float, step_size_int,
                 chat_interval, chat_active, aborted, store_size, n_loads,
                 n_sends, abort_calls, store_retries,
                 last_tick_sent, exhausted, unplaced>>

\* a chat tick that also sends slot 1 when it is due behind slot 0
ChatTick_sends_two ==
  /\ chat_interval
  /\ IF queue_count > 0
     THEN IF step_index = 0 /\ queue[0] # NULL
          THEN LET more == IF queue[1] # NULL THEN 1 ELSE 0
               IN /\ n_sends + more < MaxSends
                  /\ chat_active + more < MaxInFlight
                  /\ chat_active' = chat_active + 1 + more
                  /\ chatting' = IF more = 0
                                 THEN [chatting EXCEPT ![queue[0]] = @ + 1]
                                 ELSE IF queue[1] = queue[0]
                                 THEN [chatting EXCEPT ![queue[0]] = @ + 2]
                                 ELSE [chatting EXCEPT ![queue[0]] = @ + 1,
                                                       ![queue[1]] = @ + 1]
                  /\ n_sends' = n_sends + 1 + more
                  /\ last_tick_sent' = TRUE
                  /\ UNCHANGED <<queue, step_size_int>>
          ELSE /\ step_size_int < MaxStepInt
               /\ step_size_int' = increment_step_index(step_size_int, step_index)
               /\ queue' = shift_queue(queue)
               /\ last_tick_sent' = FALSE
               /\ UNCHANGED <<chat_active, chatting, n_sends>>
     ELSE /\ last_tick_sent' = FALSE
          /\ UNCHANGED <<queue, step_size_int, chat_active, chatting, n_sends>>
  /\ UNCHANGED <<signal, queue_count, step_index, step_size_float,
                 load_interval, load_cursor, chat_interval, wait_interval,
                 wait_timers, aborted, prompts, store_size, loading, n_loads,
                 abort_calls, store_retries, exhausted, unplaced>>

\* a tick of the chat interval: up to the await of send_prompt when it sends,
\* the whole callback when it does not
ChatTick ==
  /\ chat_interval
  /\ IF queue_count > 0
     THEN IF step_index = 0 /\ queue[0] # NULL
          THEN /\ n_sends < MaxSends
               /\ chat_active < MaxInFlight
               /\ chat_active' = chat_active + 1
               /\ chatting' = [chatting EXCEPT ![queue[0]] = @ + 1]
               /\ n_sends' = n_sends + 1
               /\ last_tick_sent' = TRUE
               /\ UNCHANGED <<queue, step_size_int>>
          ELSE /\ step_size_int < MaxStepInt
               /\ step_size_int' = increment_step_index(step_size_int, step_index)
               /\ queue' = shift_queue(queue)
               /\ last_tick_sent' = FALSE
               /\ UNCHANGED <<chat_active, chatting, n_sends>>
     ELSE /\ last_tick_sent' = FALSE
          /\ UNCHANGED <<queue, step_size_int, chat_active, chatting, n_sends>>
  /\ UNCHANGED <<signal, queue_count, step_index, step_size_float,
                 load_interval, load_cursor, chat_interval, wait_interval,
                 wait_timers, aborted, prompts, store_size, loading, n_loads,
                 abort_calls, store_retries, exhausted, unplaced>>

\* a send whose abort branch returns before `this.chat_active -= 1`
SendReturn_abort_returns_early(prompt, outcome) ==
  /\ chatting[prompt] > 0
  /\ chatting' = [chatting EXCEPT ![prompt] = @ - 1]
  /\ chat_active' = IF outcome.kind # "ok" /\ ~(outcome.kind = "NetworkError" /\ should_retry(outcome))
                  THEN chat_active ELSE chat_active - 1
  /\ LET retry == outcome.kind = "NetworkError" /\ should_retry(outcome)
         fatal == outcome.kind # "ok" /\ ~retry
         float == IF outcome.kind = "ok"
                  THEN update_step_size(step_size_float, STEP_POSITIVE_AMOUNT)
                  ELSE IF retry
                  THEN update_step_size(step_size_float, STEP_NEGATIVE_AMOUNT)
                  ELSE step_size_float
         int == IF fatal THEN step_size_int ELSE Round(float)
     IN /\ step_size_float' = float
        /\ step_size_int' = increment_step_index(int, step_index)
        /\ IF retry
           THEN \E exact_index \in ExactIndexes(prompts[prompt].retries) :
                  LET sp == schedule_prompt(queue, prompts, prompt, exact_index)
                  IN /\ queue' = shift_queue(sp.queue)
                     /\ prompts' = sp.prompts
                     /\ exhausted' = IF sp.log = "exhausted"
                                     THEN exhausted \cup {prompt} ELSE exhausted
                     /\ unplaced' = IF sp.log = "unplaced"
                                    THEN unplaced \cup {prompt} ELSE unplaced
           ELSE /\ queue' = shift_queue(queue)
                /\ UNCHANGED <<prompts, exhausted, unplaced>>
        /\ IF fatal
           THEN /\ chat_interval' = FALSE
                /\ load_interval' = FALSE
                /\ wait_timers' = wait_timers \ {wait_interval}
                /\ aborted' = TRUE
                /\ signal' = Resolved("false")
                /\ abort_calls' = abort_calls + 1
           ELSE UNCHANGED <<chat_interval, load_interval, wait_timers, aborted,
                            signal, abort_calls>>
  /\ UNCHANGED <<queue_count, step_index, load_cursor, wait_interval,
                 store_size, loading, n_loads, n_sends, store_retries,
                 last_tick_sent>>

\* runner.chat(prompt) settles: the rest of send_prompt, then the rest of
\* the chat callback that awaited it
SendReturn(prompt, outcome) ==
  /\ chatting[prompt] > 0
  /\ chatting' = [chatting EXCEPT ![prompt] = @ - 1]
  /\ chat_active' = chat_active - 1
  /\ LET retry == outcome.kind = "NetworkError" /\ should_retry(outcome)
         fatal == outcome.kind # "ok" /\ ~retry
         float == IF outcome.kind = "ok"
                  THEN update_step_size(step_size_float, STEP_POSITIVE_AMOUNT)
                  ELSE IF retry
                  THEN update_step_size(step_size_float, STEP_NEGATIVE_AMOUNT)
                  ELSE step_size_float
         int == IF fatal THEN step_size_int ELSE Round(float)
     IN /\ step_size_float' = float
        /\ step_size_int' = increment_step_index(int, step_index)
        /\ IF retry
           THEN \E exact_index \in ExactIndexes(prompts[prompt].retries) :
                  LET sp == schedule_prompt(queue, prompts, prompt, exact_index)
                  IN /\ queue' = shift_queue(sp.queue)
                     /\ prompts' = sp.prompts
                     /\ exhausted' = IF sp.log = "exhausted"
                                     THEN exhausted \cup {prompt} ELSE exhausted
                     /\ unplaced' = IF sp.log = "unplaced"
                                    THEN unplaced \cup {prompt} ELSE unplaced
           ELSE /\ queue' = shift_queue(queue)
                /\ UNCHANGED <<prompts, exhausted, unplaced>>
        /\ IF fatal
           THEN /\ chat_interval' = FALSE
                /\ load_interval' = FALSE
                /\ wait_timers' = wait_timers \ {wait_interval}
                /\ aborted' = TRUE
                /\ signal' = Resolved("false")
                /\ abort_calls' = abort_calls + 1
           ELSE UNCHANGED <<chat_interval, load_interval, wait_timers, aborted,
                            signal, abort_calls>>
  /\ UNCHANGED <<queue_count, step_index, load_cursor, wait_interval,
                 store_size, loading, n_loads, n_sends, store_retries,
                 last_tick_sent>>

\* a tick of a wait interval
WaitTick(handle) ==
  /\ handle \in wait_timers
  /\ IF chat_active = 0
     THEN /\ wait_timers' = wait_timers \ {wait_interval}
          /\ signal' = Resolved("true")
     ELSE UNCHANGED <<wait_timers, signal>>
  /\ UNCHANGED <<queue, queue_count, step_index, step_size_float, step_size_int,
                 load_interval, load_cursor, chat_interval, chat_active,
                 wait_interval, aborted, prompts, store_size, loading, chatting,
                 n_loads, n_sends, abort_calls, store_retries, last_tick_sent,
                 exhausted, unplaced>>

Next ==
  \/ Start
  \/ LoadTick
  \/ \E cursor \in 0..MaxStore : LoadReturn(cursor)
  \/ ChatTick
  \/ \E prompt \in 1..Len(prompts), outcome \in Outcomes : SendReturn(prompt, outcome)
  \/ \E handle \in 1..MaxLoads : WaitTick(handle)

Spec == Init /\ [][Next]_vars

\* a load tick that finds the previous load answered
LoadTickAnswered == LoadTick /\ \A cursor \in 0..MaxStore : loading[cursor] = 0

\* a runner whose sends always succeed and a database that answers before
\* the next load tick; timers keep firing while they are live and every
\* load and send is answered
NextLive ==
  \/ Start
  \/ LoadTickAnswered
  \/ \E cursor \in 0..MaxStore : LoadReturn(cursor)
  \/ ChatTick
  \/ \E prompt \in 1..Len(prompts) : SendReturn(prompt, Ok)
  \/ \E handle \in 1..MaxLoads : WaitTick(handle)

LiveSpec ==
  /\ Init
  /\ [][NextLive]_vars
  /\ WF_vars(Start)
  /\ WF_vars(LoadTickAnswered)
  /\ WF_vars(\E cursor \in 0..MaxStore : LoadReturn(cursor))
  /\ WF_vars(ChatTick)
  /\ WF_vars(\E prompt \in 1..Len(prompts) : SendReturn(prompt, Ok))
  /\ WF_vars(\E handle \in 1..MaxLoads : WaitTick(handle))

\* ------------------------------------------------------------- claims
Slots == 0..(queue_size - 1)
Occupied(q) == {i \in Slots : q[i] # NULL}
IsRetry(outcome) == outcome.kind = "NetworkError" /\ should_retry(outcome)
Completed == signal \in {"true", "false"}

\* C1: with a finite store and a runner that always succeeds, under fair
\* ticks the loader eventually gets the done response and the promise is
\* eventually resolved with true.
C1_GracefulCompletionLive == <>(wait_interval > 0 /\ signal = "true")

\* C2: whenever the promise is resolved with true, no send is in flight and
\* no prompt is left in a slot of the queue.
C2_TrueMeansDrained ==
  signal = "true" => chat_active = 0 /\ Occupied(queue) = {}

\* C3: once abort has run, no step calls database.load or runner.chat,
\* none puts a prompt into the queue (the queue only advances), none
\* changes a prompt's retries, and the cursor stays.
C3_NothingAfterAbort ==
  [][aborted =>
       /\ n_loads' = n_loads
       /\ n_sends' = n_sends
       /\ load_cursor' = load_cursor
       /\ prompts' = prompts
       /\ queue' = queue \/ queue' = shift_queue(queue)]_vars

\* C4: once the promise is resolved, abort does not run (again) and no wait
\* tick resolves it again.
C4_CompletedOnce ==
  [][Completed =>
       /\ abort_calls' = abort_calls
       /\ ~(\E handle \in 1..MaxLoads : WaitTick(handle) /\ chat_active = 0)]_vars

\* C5: queue_count is the number of slots in [0, queue_size) holding a prompt.
C5_CountMatchesSlots == queue_count = Cardinality(Occupied(queue))

\* C6: a chat tick that advances the queue leaves in each slot i below
\* queue_size - 1 what slot i + 1 held, empties slot queue_size - 1 and
\* writes nothing at index queue_size.
Advance == ChatTick /\ queue_count > 0 /\ ~(step_index = 0 /\ queue[0] # NULL)
C6_AdvanceShiftsInBounds ==
  [][Advance =>
       /\ \A i \in 0..(queue_size - 2) : queue'[i] = queue[i + 1]
       /\ queue'[queue_size - 1] = NULL
       /\ queue'[queue_size] = queue[queue_size]]_vars

\* C7: runner.chat is called only by a chat tick, and a chat tick calls it
\* at most once, whatever the queue holds.
C7_OneSendPerTick ==
  [][n_sends' # n_sends =>
       /\ ChatTick
       /\ n_sends' = n_sends + 1
       /\ chat_active' = chat_active + 1]_vars
\* a tick has sent while a second prompt was waiting behind slot 0
C7_Witness ==
  /\ last_tick_sent
  /\ queue[0] # NULL
  /\ queue[1] # NULL
  /\ chatting[queue[0]] > 0

\* C8: while step_size_int, the rounded step, is above 1, a chat tick that
\* follows a sending chat tick does not send (it only advances the queue).
C8_SkipCadence ==
  [][(step_size_int > 1 /\ last_tick_sent /\ ChatTick)
       => n_sends' = n_sends]_vars

\* C9: the step (in tenths) is within [STEP_SIZE_MIN, STEP_SIZE_MAX] in
\* every reachable state.
C9_StepWithinBounds ==
  step_size_float >= STEP_SIZE_MIN /\ step_size_float <= STEP_SIZE_MAX

\* C10: no prompt's retries exceeds RETRY_COUNT; a retryable failure of a
\* prompt whose retries is RETRY_COUNT only advances the queue and reports
\* the prompt as exhausted; and from then on no step writes that prompt
\* into a slot: a slot holds it after a step only if it held it before or
\* receives it from the slot above by the advance.
C10_RetryCeiling ==
  [][/\ \A p \in DOMAIN prompts' : prompts'[p].retries <= RETRY_COUNT
     /\ \A p \in DOMAIN prompts, outcome \in Outcomes :
          (prompts[p].retries = RETRY_COUNT /\ IsRetry(outcome)
             /\ SendReturn(p, outcome))
          => /\ queue' = shift_queue(queue)
             /\ prompts' = prompts
             /\ p \in exhausted'
     /\ LET at_ceiling == {p \in DOMAIN prompts : prompts[p].retries = RETRY_COUNT}
            advanced == shift_queue(queue)
        IN \A p \in at_ceiling :
             /\ prompts'[p].retries = RETRY_COUNT
             /\ \A i \in 0..queue_size :
                  queue'[i] = p => queue[i] = p \/ advanced[i] = p]_vars
\* a prompt was sent twice at once, the first failure took it to the
\* ceiling and the second was reported as exhausted
C10_Witness ==
  \E p \in exhausted :
    /\ prompts[p].retries = RETRY_COUNT
    /\ n_sends = 2

\* the exact_index of find_closest_queue_index when Math.random() is largest
exact_index_max(retries) == Min(DelayHi(retries), queue_size)
\* a retryable failure of prompt p whose placement started from exact_index
RetryPlacedFrom(p, outcome, exact_index) ==
  /\ IsRetry(outcome)
  /\ prompts[p].retries < RETRY_COUNT
  /\ SendReturn(p, outcome)
  /\ queue' = shift_queue(schedule_prompt(queue, prompts, p, exact_index).queue)

\* C11: in every retry placement made with the largest jitter, the exact
\* index is at most queue_size - 1, a slot of the queue, and is not below
\* the exact index of any smaller retries.
C11_BackoffIndexInsideQueue ==
  [][\A p \in DOMAIN prompts, outcome \in Outcomes :
       RetryPlacedFrom(p, outcome, exact_index_max(prompts[p].retries))
       => /\ exact_index_max(prompts[p].retries) <= queue_size - 1
          /\ \A r \in 0..(prompts[p].retries - 1) :
               exact_index_max(r) <= exact_index_max(prompts[p].retries)]_vars

\* the slot C12 expects for a target: the target when it is empty, else the
\* lowest empty slot above it, else the highest empty slot below it
EmptyAbove(q, target) == {i \in Slots : i > target /\ q[i] = NULL}
EmptyBelow(q, target) == {i \in Slots : i < target /\ q[i] = NULL}
NearestEmpty(q, target) ==
  IF target \in Slots /\ q[target] = NULL THEN target
  ELSE IF EmptyAbove(q, target) # {}
  THEN CHOOSE i \in EmptyAbove(q, target) : \A j \in EmptyAbove(q, target) : i <= j
  ELSE IF EmptyBelow(q, target) # {}
  THEN CHOOSE i \in EmptyBelow(q, target) : \A j \in EmptyBelow(q, target) : i >= j
  ELSE NOT_FOUND

\* C12: in every retry placement, find_closest_queue_index returns the
\* target when it is empty, else the lowest empty slot above it, else the
\* highest empty slot below it down to slot 0; what it returns is an empty
\* slot of [0, queue_size), and it returns null only when no slot is empty.
C12_NearestEmptySlot ==
  [][\A p \in DOMAIN prompts, outcome \in Outcomes :
       \A exact_index \in ExactIndexes(prompts[p].retries) :
         RetryPlacedFrom(p, outcome, exact_index)
         => LET queue_index == find_closest_queue_index(queue, exact_index)
            IN /\ queue_index = NearestEmpty(queue, exact_index)
               /\ queue_index # NOT_FOUND
                    => queue_index \in Slots /\ queue[queue_index] = NULL
               /\ queue_index = NOT_FOUND => Occupied(queue) = Slots]_vars

\* the slots of [0, queue_size) that hold prompt p
SlotsOf(q, p) == {i \in Slots : q[i] = p}

\* C13: a retryable failure of a prompt whose retries is below RETRY_COUNT,
\* with an empty slot in the queue, leaves the prompt in exactly one slot
\* of [0, queue_size) with retries one higher.
C13_RetryKeepsPrompt ==
  [][\A p \in DOMAIN prompts, outcome \in Outcomes :
       \A exact_index \in ExactIndexes(prompts[p].retries) :
         (RetryPlacedFrom(p, outcome, exact_index) /\ Occupied(queue) # Slots)
         => /\ prompts'[p].retries = prompts[p].retries + 1
            /\ Cardinality(SlotsOf(queue', p)) = 1]_vars

\* the runner.chat calls in flight, over all prompts
RECURSIVE InFlight(_)
InFlight(c) == IF c = <<>> THEN 0 ELSE Head(c) + InFlight(Tail(c))

\* C14: chat_active is the number of runner.chat calls started and not yet
\* settled, and so never negative: each settled call, resolved, retried or
\* aborting, has taken exactly one off, however the calls overlap.
C14_ActiveCountsInFlight ==
  chat_active = InFlight(chatting) /\ chat_active >= 0
\* three sends were started, one failed fatally and one other settled
\* while the third is still in flight
C14_Witness ==
  /\ aborted
  /\ n_sends = 3
  /\ chat_active = 1
  /\ InFlight(chatting) = 1

\* a slow database: up to MaxPushLoads load ticks fire before the first
\* answer, the runner's sends always succeed
InitPush ==
  /\ signal = "idle"
  /\ queue = [i \in 0..queue_size |-> IF i < queue_size THEN NULL ELSE UNDEFINED]
  /\ queue_count = 0
  /\ step_index = 0
  /\ step_size_float = 0
  /\ step_size_int = 0
  /\ load_interval = FALSE
  /\ load_cursor = 0
  /\ chat_interval = FALSE
  /\ chat_active = 0
  /\ wait_interval = 0
  /\ wait_timers = {}
  /\ aborted = FALSE
  /\ prompts = <<>>
  /\ store_size \in 1..MaxPushStore
  /\ store_retries = 0
  /\ last_tick_sent = FALSE
  /\ exhausted = {}
  /\ unplaced = {}
  /\ loading = [c \in 0..MaxPushStore |-> 0]
  /\ chatting = <<>>
  /\ n_loads = 0
  /\ n_sends = 0
  /\ abort_calls = 0

NextPush ==
  \/ Start
  \/ LoadTickWithin(MaxPushLoads)
  \/ \E cursor \in 0..MaxPushStore : LoadReturn(cursor)
  \/ ChatTick
  \/ \E prompt \in 1..Len(prompts) : SendReturn(prompt, Ok)

PushSpec == InitPush /\ [][NextPush]_vars

\* the number of empty slots below slot i
EmptyRank(q, i) == Cardinality({j \in Slots : j < i /\ q[j] = NULL})

\* C15: a load answered with a page writes the page's prompts, in id order,
\* into the lowest empty slots, leaves the occupied slots as they were, and
\* leaves in load_cursor the id of the last prompt it wrote, also when the
\* queue had fewer empty slots than the page has prompts.
C15_PageFillsLowestEmptySlots ==
  [][\A cursor \in 0..MaxPushStore :
       (cursor \in DOMAIN loading /\ LoadReturn(cursor)
          /\ ~load_done(store_size, cursor))
       => LET page_length == Len(load_ids(store_size, cursor, load_limit))
              empty == Cardinality(Slots) - Cardinality(Occupied(queue))
              placed == Min(page_length, empty)
          IN /\ \A i \in Slots :
                  queue'[i] = IF queue[i] = NULL /\ EmptyRank(queue, i) < page_length
                              THEN Len(prompts) + EmptyRank(queue, i) + 1
                              ELSE queue[i]
             /\ \A k \in 1..(page_length - 1) :
                  prompts'[Len(prompts) + k].id < prompts'[Len(prompts) + k + 1].id
             /\ placed > 0 => load_cursor' = prompts'[Len(prompts) + placed].id]_vars

\* the failures C16 calls retryable: one of the four codes, or a message
\* about tokens, whatever the error's class
RetryableFailure(outcome) == outcome.kind # "ok" /\ should_retry(outcome)
FatalFailure(outcome) == outcome.kind # "ok" /\ ~should_retry(outcome)

\* C16: a failed send resolves the promise with false exactly when the
\* failure is fatal. A retryable failure leaves the promise alone, lowers
\* the step and goes to schedule_prompt; a fatal one aborts, leaves the
\* step as it is and does not put the prompt back.
C16_AbortIffFatal ==
  [][\A p \in DOMAIN prompts, outcome \in Outcomes :
       /\ (RetryableFailure(outcome) /\ SendReturn(p, outcome))
          => /\ signal' = signal
             /\ abort_calls' = abort_calls
             /\ step_size_float' = update_step_size(step_size_float, STEP_NEGATIVE_AMOUNT)
             /\ \/ prompts'[p].retries = prompts[p].retries + 1
                \/ p \in unplaced'
                \/ p \in exhausted'
       /\ (FatalFailure(outcome) /\ SendReturn(p, outcome))
          => /\ signal' = "false"
             /\ abort_calls' = abort_calls + 1
             /\ step_size_float' = step_size_float
             /\ prompts' = prompts
             /\ queue' = shift_queue(queue)]_vars

\* C17: once the promise is resolved, with true or with false, the load
\* interval, the chat interval and every wait interval are cleared, so no
\* tick of any of them can fire.
C17_NoTimerAfterCompletion ==
  Completed => ~load_interval /\ ~chat_interval /\ wait_timers = {}

\* C18: the shift_queue that ends a sending chat tick takes out of slot 0
\* the prompt that tick read from slot 0 and sent, or finds slot 0 empty,
\* however many other ticks have run while the send was in flight; a tick
\* that only advances finds slot 0 empty.
C18_AdvanceRemovesWhatWasSent ==
  [][/\ \A p \in DOMAIN prompts, outcome \in Outcomes :
          SendReturn(p, outcome) => queue[0] \in {NULL, p}
     /\ Advance => queue[0] = NULL]_vars

\* C19: no prompt has two runner.chat calls in flight at once: a chat tick
\* does not send the prompt in slot 0 while an earlier tick's send of that
\* same occupancy of slot 0 has not settled.
C19_OneSendPerOccupancy ==
  \A p \in DOMAIN chatting : chatting[p] <= 1

\* C20: no two prompts the loader has put into the queue carry the same id,
\* no two database.load calls are in flight with the same cursor, and
\* setup_wait_interval has run at most once.
C20_LoadedOnce ==
  /\ \A p, q \in DOMAIN prompts : p # q => prompts[p].id # prompts[q].id
  /\ \A cursor \in DOMAIN loading : loading[cursor] <= 1
  /\ wait_interval <= 1

====
